---- MODULE Spec2Model ----
(***************************************************************************)
(* State-machine model of the orchestration core in                        *)
(* src/services/geminiService.ts: the stress-test video job               *)
(* (generateStressTestVideo), the design pipeline                          *)
(* (getRealWeatherWithSearch, generateProfessionalDesign) and the          *)
(* single-call image operations (generateGarmentAsset, editGarmentImage,   *)
(* generateVirtualFit) and the fit analysis (analyzeFitCompatibility);     *)
(* and of the handlers that invoke them: handleBriefComplete of App        *)
(* (src/unnamed/part_000) and handleFitProcess, handleVideoExport of       *)
(* FittingRoom (src/components/FittingRoom.tsx).                           *)
(* Every await of the source is one suspension point; the code between two *)
(* awaits is one atomic action.                                            *)
(***************************************************************************)
EXTENDS Integers, Sequences, FiniteSets, TLC

VARIABLES
    \* ---- generateStressTestVideo ----
    vpc,        \* position of the operation: idle, start, sleep, poll, returned, failed
    vargs,      \* its arguments [image, actionType]
    operation,  \* the local `operation`: the job as last reported to the client
    remote,     \* the job on the remote side
    vresult,    \* the locator returned to the caller
    verror,     \* the error raised to the caller
    nSleeps,    \* number of setTimeout(5000) sleeps invoked
    nPolls,     \* number of getVideosOperation calls issued
    startLog,   \* the responses of the start call, in order (at most one)
    pollLog,    \* the responses of the poll calls, in order
    \* ---- generateProfessionalDesign ----
    dpc,        \* idle, grounding, chat, image, returned, failed
    brief,      \* the DesignBrief argument
    weatherInfo,\* result of getRealWeatherWithSearch
    groundingFailed, \* whether the search-grounded call raised
    groundingResponse, \* the response of the search-grounded call
    chatResponse,    \* the response of chat.sendMessage
    designData, \* JSON.parse(response.text)
    imageRequest,    \* subject of the concept-art prompt
    dresult,    \* the ProfessionalDesignResult returned
    derror,     \* the error raised to the caller
    dtrace,     \* calls issued, responses received and parse outcomes of this invocation, in order
    \* ---- generateGarmentAsset / editGarmentImage / generateVirtualFit ----
    ipc,        \* idle, await, returned, failed
    iop,        \* which of the three operations runs
    iargs,      \* its arguments [description, context, simConfig]
    iprompt,    \* the text it sends, as the sequence of its lines
    iresponse,  \* the response of ai.models.generateContent
    iresult,    \* the locator returned
    ierror,     \* the error raised
    \* ---- analyzeFitCompatibility ----
    apc,        \* idle, await, returned, failed
    aargs,      \* its arguments [imageBytes, constraints]
    aresponse,  \* the text of the response of ai.models.generateContent
    aresult,    \* the FitAnalysisResult returned
    aerror,     \* the error raised
    \* ---- console ----
    console,    \* the messages written with console.warn and console.error, in order
    \* ---- App ----
    mode,            \* home, director, fitting
    designToFit,     \* what the lookbook hands to the FittingRoom, or undefined
    directorView,    \* brief, processing, lookbook
    directorResult,  \* the ProfessionalDesignResult shown, or none
    error,           \* the message shown, or none
    \* ---- FittingRoom ----
    modelFile,       \* the actor photo, or none
    selectedGarment, \* the name of the selected garment, or none
    simConfig,       \* the SimulationConfig of the controls
    generatedImage,  \* the locator of the last render, or none
    previousImage,   \* the render before it, or none
    videoUrl,        \* the locator of the video, or none
    isLoading,
    isCompareMode,
    garmentLoading,  \* the initial load effect awaits urlToFile
    \* ---- StartScreen ----
    step,            \* 1, 2, 3
    wbrief,          \* the DesignBrief under edit
    \* ---- history ----
    clicks,     \* number of clicks that invoke something: a brief, a render, an export, a try-on
    lastFit,    \* arguments and composed text of the last settled generateVirtualFit call
    beforeFit,  \* generatedImage and previousImage as they were when the render in flight was requested
    startedOver \* Start Over was clicked while the request now in flight was in flight

videoVars  == <<vpc, vargs, operation, remote, vresult, verror, nSleeps, nPolls, startLog, pollLog>>
designVars == <<dpc, brief, weatherInfo, groundingFailed, groundingResponse, chatResponse, designData,
                imageRequest, dresult, derror, dtrace>>
imageVars  == <<ipc, iop, iargs, iprompt, iresponse, iresult, ierror>>
analyzeVars == <<apc, aargs, aresponse, aresult, aerror>>
logVars    == <<console>>
appVars    == <<mode, directorView, directorResult, error, designToFit>>
fittingVars == <<modelFile, selectedGarment, simConfig, generatedImage, previousImage, videoUrl,
                 isLoading, isCompareMode, garmentLoading>>
wizardVars == <<step, wbrief>>
historyVars == <<clicks, lastFit, beforeFit, startedOver>>
ghostVars  == <<lastFit, beforeFit, startedOver>>
uiVars     == <<appVars, wizardVars, fittingVars, historyVars>>
vars       == <<videoVars, designVars, imageVars, analyzeVars, logVars, uiVars>>

\* what an action of one operation leaves alone
nonVideoVars   == <<designVars, imageVars, analyzeVars, logVars, uiVars>>
nonDesignVars  == <<videoVars, imageVars, analyzeVars, uiVars>>   \* the design pipeline writes the console
nonImageVars   == <<videoVars, designVars, analyzeVars, logVars, uiVars>>
nonAnalyzeVars == <<videoVars, designVars, imageVars, logVars, uiVars>>

\* JavaScript's undefined, for string-valued fields
Undefined == "<undefined>"
\* no value yet (a result or an error that has not been produced)
None == "<none>"

\* truthiness of a string-or-undefined value: '' and undefined are falsy
Truthy(s) == s # Undefined /\ s # ""

\* process.env.API_KEY
API_KEY == "SECRET"

\* bound of the history counters nSleeps, nPolls and of the logs
MaxPolls == 4

Bump(n) == IF n < MaxPolls THEN n + 1 ELSE n
Log(log, e) == IF Len(log) < MaxPolls THEN Append(log, e) ELSE log


(***************************************************************************)
(* Image responses and the extraction of the inline image payload          *)
(***************************************************************************)

\* bound on the number of candidates of an image response
MaxCandidates == 2

\* `${x}` of a string-or-undefined value
Str(x) == IF x = Undefined THEN "undefined" ELSE x

TextPart == [inline |-> FALSE, mimeType |-> Undefined, data |-> Undefined]
PngPart  == [inline |-> TRUE, mimeType |-> "image/png", data |-> "AAAA"]
JpegPart == [inline |-> TRUE, mimeType |-> "image/jpeg", data |-> "BBBB"]
BarePart == [inline |-> TRUE, mimeType |-> Undefined, data |-> ""]

\* candidate.content?.parts of one candidate (<<>>: no content or no parts)
PartLists == { <<>>, <<TextPart>>, <<PngPart>>, <<TextPart, JpegPart>>,
               <<PngPart, JpegPart>>, <<BarePart>> }

\* response.candidates (<<>>: undefined or empty)
ImageResponses == UNION { [1..n -> PartLists] : n \in 0..MaxCandidates }

\* `data:${part.inlineData.mimeType};base64,${part.inlineData.data}`
DataUrl(part) == "data:" \o Str(part.mimeType) \o ";base64," \o Str(part.data)

\* the inner loop over one candidate's parts: the url it assigns before its break,
\* or the url it was given when no part carries inlineData
InnerLoop(parts, url) ==
    IF \E i \in 1..Len(parts) : parts[i].inline
    THEN LET i == CHOOSE j \in 1..Len(parts) :
                     /\ parts[j].inline
                     /\ \A k \in 1..(j - 1) : ~parts[k].inline
         IN DataUrl(parts[i])
    ELSE url

\* the outer loop over the candidates, which the inner break does not leave
RECURSIVE OuterLoop(_, _)
OuterLoop(candidates, url) ==
    IF candidates = <<>> THEN url
    ELSE OuterLoop(Tail(candidates), InnerLoop(Head(candidates), url))

\* let imageUrl = ''; for (candidate ...) for (part ...) if (part.inlineData) {...; break}
ExtractImage(candidates) == OuterLoop(candidates, "")

(***************************************************************************)
(* getRealWeatherWithSearch                                                *)
(***************************************************************************)

Locations == { "London", "Cairo" }

\* groundingMetadata.groundingChunks as the list of chunk.web?.uri (<<>>: absent)
ChunkLists == { <<>>, <<"https://src/1">>, <<Undefined, "https://src/2">> }

\* responses of the search-grounded call
GroundingResponses == [text : {Undefined, "", "Rainy, 50F"}, chunks : ChunkLists]

\* no response of the search-grounded call
NoGrounding == [text |-> Undefined, chunks |-> <<>>]

\* chunks.forEach(chunk => { if (chunk.web?.uri) sources.push(chunk.web.uri) })
SourcesOf(chunks) == SelectSeq(chunks, Truthy)

\* the value returned by the catch block
DefaultWeather(location) ==
    [temp |-> 72, condition |-> "Sunny (Default)", location |-> location, sources |-> <<>>]

\* the value returned by the try block
SearchWeather(response, location) ==
    [temp |-> 0,
     condition |-> IF Truthy(response.text) THEN response.text ELSE "Unknown",
     location |-> location,
     sources |-> SourcesOf(response.chunks)]

\* getRealWeatherWithSearch without its try/catch
GetRealWeatherWithSearchRethrows(outcome, location) ==
    IF outcome.ok
    THEN [raised |-> FALSE, value |-> SearchWeather(outcome.response, location)]
    ELSE [raised |-> TRUE, value |-> DefaultWeather(location)]

\* getRealWeatherWithSearch(location) for an outcome of its call: whether it raises,
\* and the value it returns
GetRealWeatherWithSearch(outcome, location) ==
    IF outcome.ok
    THEN [raised |-> FALSE, value |-> SearchWeather(outcome.response, location)]
    ELSE [raised |-> FALSE, value |-> DefaultWeather(location)]

(***************************************************************************)
(* generateStressTestVideo                                                 *)
(***************************************************************************)

\* fittedImageUrl values: data locators "data:<mime>;base64,<data>"
FittedImages == { [mime |-> "image/png", data |-> "FIT1"], [mime |-> "image/png", data |-> "FIT2"] }
ActionTypes  == { "walking", "running" }

\* operation.response?.generatedVideos of a finished job: absent or empty (<<>>),
\* a video without uri, one with an empty uri, or videos with uris
DoneVideos == { <<>>, <<Undefined>>, <<"">>, <<"https://video/1">>, <<"https://video/2", "https://video/1">> }

PendingJob == [done |-> FALSE, videos |-> <<>>]

\* fittedImageUrl.split(',')[1]
Base64Of(image) == image.data

\* operation.response?.generatedVideos?.[0]?.video?.uri
DownloadLink(op) == IF Len(op.videos) = 0 THEN Undefined ELSE op.videos[1]

\* the locator without the retrieval suffix
VideoLocatorNoKey(link) == link

\* `${downloadLink}&key=${API_KEY}`
VideoLocator(link) == link \o "&key=" \o API_KEY

\* if (!downloadLink)
LinkMissingUndefinedOnly(link) == link = Undefined

LinkMissing(link) == ~Truthy(link)

\* the polling loop with a maximum number of polls
LoopContinuesBounded(op, polls) == ~op.done /\ polls < 3

\* the test of the polling loop: while (!operation.done)
LoopContinues(op, polls) == ~op.done

InitVideo ==
    /\ vpc = "idle"
    /\ vargs = [imageBytes |-> None, actionType |-> None]
    /\ operation = PendingJob
    /\ remote = PendingJob
    /\ vresult = None
    /\ verror = None
    /\ nSleeps = 0
    /\ nPolls = 0
    /\ startLog = <<>>
    /\ pollLog = <<>>

\* a loop with a retry state: a done job without a download link is polled again
AfterStatusRetries(op) ==
    IF LoopContinues(op, nPolls) \/ LinkMissing(DownloadLink(op))
    THEN /\ vpc' = "sleep"
         /\ nSleeps' = Bump(nSleeps)
         /\ UNCHANGED <<vresult, verror>>
    ELSE /\ nSleeps' = nSleeps
         /\ vpc' = "returned"
         /\ vresult' = VideoLocator(DownloadLink(op))
         /\ verror' = verror

\* the code after a job status has been received: the loop test, then either the
\* next sleep or the extraction of the download link and the return or throw
AfterStatus(op) ==
    IF LoopContinues(op, nPolls)
    THEN /\ vpc' = "sleep"
         /\ nSleeps' = Bump(nSleeps)
         /\ UNCHANGED <<vresult, verror>>
    ELSE /\ nSleeps' = nSleeps
         /\ IF LinkMissing(DownloadLink(op))
            THEN /\ vpc' = "failed"
                 /\ verror' = "Video generation failed or no URI returned."
                 /\ vresult' = vresult
            ELSE /\ vpc' = "returned"
                 /\ vresult' = VideoLocator(DownloadLink(op))
                 /\ verror' = verror

\* the caller invokes generateStressTestVideo with image bytes of `bytes` and an
\* action label of `labels`: ai.models.generateVideos is issued
VideoCallWith(bytes, labels) ==
    /\ vpc = "idle"
    /\ \E b \in bytes, act \in labels :
          vargs' = [imageBytes |-> b, actionType |-> act]
    /\ vpc' = "start"
    /\ UNCHANGED <<operation, remote, vresult, verror, nSleeps, nPolls, startLog, pollLog>>

VideoCall ==
    /\ VideoCallWith({ Base64Of(img) : img \in FittedImages }, ActionTypes)
    /\ UNCHANGED nonVideoVars

\* the remote job finishes, with or without a result
RemoteFinish ==
    /\ vpc \in {"start", "sleep", "poll"}
    /\ ~remote.done
    /\ \E vs \in DoneVideos : remote' = [done |-> TRUE, videos |-> vs]
    /\ UNCHANGED <<vpc, vargs, operation, vresult, verror, nSleeps, nPolls, startLog, pollLog>>
    /\ UNCHANGED nonVideoVars

\* a loop that polls first and sleeps only after a poll that is not done
VideoStartReturnsPollFirst ==
    /\ vpc = "start"
    /\ operation' = remote
    /\ startLog' = Log(startLog, remote)
    /\ IF ~remote.done
       THEN /\ vpc' = "poll"
            /\ nPolls' = Bump(nPolls)
            /\ UNCHANGED <<vresult, verror, nSleeps>>
       ELSE /\ AfterStatus(remote)
            /\ UNCHANGED nPolls
    /\ UNCHANGED <<vargs, remote, pollLog>>
    /\ UNCHANGED nonVideoVars

\* the start call resolves with the job as it is on the remote side
VideoStartReturns ==
    /\ vpc = "start"
    /\ operation' = remote
    /\ startLog' = Log(startLog, remote)
    /\ AfterStatus(remote)
    /\ UNCHANGED <<vargs, remote, nPolls, pollLog>>
    /\ UNCHANGED nonVideoVars

\* the start call rejects
VideoStartFails ==
    /\ vpc = "start"
    /\ vpc' = "failed"
    /\ verror' = "TransportError"
    /\ UNCHANGED <<vargs, operation, remote, vresult, nSleeps, nPolls, startLog, pollLog>>
    /\ UNCHANGED nonVideoVars

\* the 5 second timer fires: ai.operations.getVideosOperation is issued
VideoSleepDone ==
    /\ vpc = "sleep"
    /\ vpc' = "poll"
    /\ nPolls' = Bump(nPolls)
    /\ UNCHANGED <<vargs, operation, remote, vresult, verror, nSleeps, startLog, pollLog>>
    /\ UNCHANGED nonVideoVars

\* the poll resolves with the job as it is on the remote side
VideoPollReturns ==
    /\ vpc = "poll"
    /\ operation' = remote
    /\ pollLog' = Log(pollLog, remote)
    /\ AfterStatus(remote)
    /\ UNCHANGED <<vargs, remote, nPolls, startLog>>
    /\ UNCHANGED nonVideoVars

\* a poll that reports its rejection on the console
VideoPollFailsLogged ==
    /\ vpc = "poll"
    /\ vpc' = "failed"
    /\ verror' = "TransportError"
    /\ console' = Append(console, <<"Video poll failed", "TransportError">>)
    /\ UNCHANGED <<vargs, operation, remote, vresult, nSleeps, nPolls, startLog, pollLog>>
    /\ UNCHANGED <<designVars, imageVars, analyzeVars, uiVars>>

\* the poll rejects
VideoPollFails ==
    /\ vpc = "poll"
    /\ vpc' = "failed"
    /\ verror' = "TransportError"
    /\ UNCHANGED <<vargs, operation, remote, vresult, nSleeps, nPolls, startLog, pollLog>>
    /\ UNCHANGED nonVideoVars

NextVideo ==
    \/ VideoCall
    \/ RemoteFinish
    \/ VideoStartReturns
    \/ VideoStartFails
    \/ VideoSleepDone
    \/ VideoPollReturns
    \/ VideoPollFails

(***************************************************************************)
(* generateProfessionalDesign                                              *)
(***************************************************************************)

\* the DesignBrief fields the control flow reads
Briefs == [filmingLocation : Locations, characterProfile : {"a tired detective"}]

\* top-level keys of the responseSchema
Keys == { "lookTitle", "dramaticDescription", "breakdown", "rationale",
          "productionNotes", "imagePrompt", "realWeather" }

\* per key of a JSON object: the key is absent, holds a value of the schema's kind
\* ("ok"), or holds a value of another kind ("wrong": a number where a string is
\* declared, a non-empty string where an object is declared)
AllOk == [k \in Keys |-> "ok"]
KeyStates ==
    {AllOk} \cup { [AllOk EXCEPT ![k] = "absent"] : k \in Keys }
            \cup { [AllOk EXCEPT ![k] = "wrong"] : k \in Keys }
            \cup { [k \in Keys |-> "absent"] }

NoWeather == [temp |-> 0, condition |-> Undefined, location |-> Undefined, sources |-> <<>>]

\* realWeather objects the conversational answer may carry
WeatherAnswers ==
    { [temp |-> 50, condition |-> "Rainy", location |-> "London", sources |-> <<>>],
      [temp |-> 72, condition |-> "Sunny (Default)", location |-> "London", sources |-> <<>>] }

ImagePrompts == { "a grey trench coat", "" }

\* a JSON object: its keys, and the values the code reads
JsonObject(keys, weather, prompt) ==
    [kind |-> "object",
     keys |-> keys,
     imagePrompt |-> IF keys["imagePrompt"] = "ok" THEN prompt
                     ELSE IF keys["imagePrompt"] = "wrong" THEN "7" ELSE Undefined,
     realWeather |-> IF keys["realWeather"] = "ok" THEN weather ELSE NoWeather]

JsonObjects == { JsonObject(ks, w, p) : ks \in KeyStates, w \in WeatherAnswers, p \in ImagePrompts }

JsonNull == [kind |-> "null", keys |-> [k \in Keys |-> "absent"],
             imagePrompt |-> Undefined, realWeather |-> NoWeather]

NoData == [kind |-> "none", keys |-> [k \in Keys |-> "absent"],
           imagePrompt |-> Undefined, realWeather |-> NoWeather]

\* response texts: undefined, text that is no JSON, a JSON value wrapped in
\* code-fence markup, or the serialisation of a JSON value
Texts ==
    { [form |-> "undefined", value |-> NoData], [form |-> "garbage", value |-> NoData] }
    \cup { [form |-> "fenced", value |-> JsonObject(AllOk, w, "a grey trench coat")] : w \in WeatherAnswers }
    \cup { [form |-> "json", value |-> v] : v \in JsonObjects \cup {JsonNull} }

ToolNames == { "getWeather", "lookupFabric" }

\* responses of chat.sendMessage: a text, or a tool-call request
ChatResponses ==
    { [kind |-> "text", text |-> t, tool |-> None, callId |-> None] : t \in Texts }
    \cup { [kind |-> "toolcall", text |-> [form |-> "undefined", value |-> NoData],
            tool |-> n, callId |-> "call-1"] : n \in ToolNames }

NoResponse == [kind |-> "none", text |-> [form |-> "undefined", value |-> NoData],
               tool |-> None, callId |-> None]

\* response.text || '{}'
ResponseTextOrEmptyObject(response) ==
    IF response.kind = "text" THEN response.text
    ELSE [form |-> "json", value |-> [kind |-> "object", keys |-> [k \in Keys |-> "absent"],
                                      imagePrompt |-> Undefined, realWeather |-> NoWeather]]

\* response.text: the text of a text response; undefined when the response
\* carries a function call and no text part
ResponseText(response) ==
    IF response.kind = "text" THEN response.text
    ELSE [form |-> "undefined", value |-> NoData]

\* a parser that reads past code-fence markup and keeps what it could read
ParseJsonFencedPartial(text) ==
    IF text.form = "json" THEN [ok |-> TRUE, value |-> text.value]
    ELSE IF text.form = "fenced"
    THEN [ok |-> TRUE, value |-> [text.value EXCEPT !.kind = "partial"]]
    ELSE [ok |-> FALSE, value |-> NoData]

\* a catch block that goes on with an empty object
ParseJsonLenient(text) ==
    IF text.form = "json" THEN [ok |-> TRUE, value |-> text.value]
    ELSE [ok |-> TRUE, value |-> [kind |-> "object", keys |-> [k \in Keys |-> "absent"],
                                  imagePrompt |-> Undefined, realWeather |-> NoWeather]]

\* JSON.parse(jsonText) inside the try block: whether it returns, and its value.
\* It throws on undefined, on text that is no JSON and on code-fence markup.
ParseJson(text) ==
    IF text.form = "json" THEN [ok |-> TRUE, value |-> text.value]
    ELSE [ok |-> FALSE, value |-> NoData]

\* if (designData.realWeather) designData.realWeather.sources = weatherInfo.sources
\* raises a TypeError when designData is null, and (in strict mode, as in every
\* ES module) when realWeather is a non-empty string
InjectRaises(data) == data.kind = "null" \/ data.keys["realWeather"] = "wrong"

InjectSources(data, info) ==
    IF data.keys["realWeather"] = "ok"
    THEN [data EXCEPT !.realWeather.sources = info.sources]
    ELSE data

\* ${designData.imagePrompt || brief.characterProfile}
ImageSubject(data, b) ==
    IF Truthy(data.imagePrompt) THEN data.imagePrompt ELSE b.characterProfile

NoResult == [data |-> NoData, conceptArtUrl |-> None]

InitDesign ==
    /\ dpc = "idle"
    /\ brief = [filmingLocation |-> None, characterProfile |-> None]
    /\ weatherInfo = NoWeather
    /\ groundingFailed = FALSE
    /\ groundingResponse = NoGrounding
    /\ chatResponse = NoResponse
    /\ designData = NoData
    /\ imageRequest = None
    /\ dresult = NoResult
    /\ derror = None
    /\ dtrace = <<>>

\* the caller invokes generateProfessionalDesign with a brief of `briefs`: the
\* search-grounded call is issued
DesignCallWith(briefs) ==
    /\ dpc = "idle"
    /\ \E b \in briefs : brief' = b
    /\ dpc' = "grounding"
    /\ dtrace' = <<"call:grounding">>
    /\ UNCHANGED <<weatherInfo, groundingFailed, groundingResponse, chatResponse, designData,
                   imageRequest, dresult, derror, console>>

DesignCall ==
    /\ DesignCallWith(Briefs)
    /\ UNCHANGED nonDesignVars

\* the search-grounded call resolves with a response of `responses`;
\* getRealWeatherWithSearch completes, the chat is created and the prompt is sent
GroundingReturnsWith(responses) ==
    /\ dpc = "grounding"
    /\ \E r \in responses :
          LET w == GetRealWeatherWithSearch([ok |-> TRUE, response |-> r], brief.filmingLocation) IN
          /\ groundingResponse' = r
          /\ IF w.raised
             THEN /\ dpc' = "failed"
                  /\ derror' = "TransportError"
                  /\ dtrace' = Append(dtrace, "resp:grounding")
                  /\ UNCHANGED weatherInfo
             ELSE /\ dpc' = "chat"
                  /\ weatherInfo' = w.value
                  /\ dtrace' = dtrace \o <<"resp:grounding", "call:chat">>
                  /\ UNCHANGED derror
    /\ groundingFailed' = FALSE
    /\ UNCHANGED <<brief, chatResponse, designData, imageRequest, dresult, console>>

GroundingReturns ==
    /\ GroundingReturnsWith(GroundingResponses)
    /\ UNCHANGED nonDesignVars

\* the search-grounded call rejects; getRealWeatherWithSearch logs the failure and
\* completes, the chat is created and the prompt is sent
GroundingFailsStep ==
    /\ dpc = "grounding"
    /\ LET w == GetRealWeatherWithSearch([ok |-> FALSE, response |-> NoGrounding],
                                         brief.filmingLocation) IN
          IF w.raised
          THEN /\ dpc' = "failed"
               /\ derror' = "TransportError"
               /\ dtrace' = Append(dtrace, "fail:grounding")
               /\ UNCHANGED <<weatherInfo, console>>
          ELSE /\ dpc' = "chat"
               /\ weatherInfo' = w.value
               /\ dtrace' = dtrace \o <<"fail:grounding", "call:chat">>
               /\ console' = Append(console, <<"Weather search failed", "TransportError">>)
               /\ UNCHANGED derror
    /\ groundingFailed' = TRUE
    /\ UNCHANGED <<brief, groundingResponse, chatResponse, designData, imageRequest, dresult>>

GroundingFails ==
    /\ GroundingFailsStep
    /\ UNCHANGED nonDesignVars

\* whether the code goes on to the image call after the parse
Proceeds(parsed) == parsed.ok /\ ~InjectRaises(parsed.value)

\* chat.sendMessage resolves with a response of `responses`: the text is parsed,
\* the sources are injected and the concept-art call is issued
ChatReturnsWith(responses) ==
    /\ dpc = "chat"
    /\ \E r \in responses :
          LET parsed == ParseJson(ResponseText(r)) IN
          /\ chatResponse' = r
          /\ IF ~parsed.ok
             THEN /\ dpc' = "failed"
                  /\ derror' = "Analysis failed. Please try again."
                  /\ dtrace' = dtrace \o <<"resp:chat", "parse:fail">>
                  /\ console' = Append(console, <<"Failed to parse JSON", ResponseText(r).form>>)
                  /\ UNCHANGED <<designData, imageRequest>>
             ELSE IF ~Proceeds(parsed)
             THEN /\ dpc' = "failed"
                  /\ derror' = "TypeError"
                  /\ designData' = parsed.value
                  /\ dtrace' = dtrace \o <<"resp:chat", "parse:ok">>
                  /\ UNCHANGED <<imageRequest, console>>
             ELSE /\ dpc' = "image"
                  /\ designData' = InjectSources(parsed.value, weatherInfo)
                  /\ imageRequest' = ImageSubject(parsed.value, brief)
                  /\ dtrace' = dtrace \o <<"resp:chat", "parse:ok", "call:image">>
                  /\ UNCHANGED <<derror, console>>
    /\ UNCHANGED <<brief, weatherInfo, groundingFailed, groundingResponse, dresult>>

ChatReturns ==
    /\ ChatReturnsWith(ChatResponses)
    /\ UNCHANGED nonDesignVars

\* chat.sendMessage rejects
ChatFailsStep ==
    /\ dpc = "chat"
    /\ dpc' = "failed"
    /\ derror' = "TransportError"
    /\ dtrace' = Append(dtrace, "fail:chat")
    /\ UNCHANGED <<brief, weatherInfo, groundingFailed, groundingResponse, chatResponse, designData,
                   imageRequest, dresult, console>>

ChatFails ==
    /\ ChatFailsStep
    /\ UNCHANGED nonDesignVars

\* the concept-art call resolves with a response of `responses`:
\* return { ...designData, conceptArtUrl }
DesignImageReturnsWith(responses) ==
    /\ dpc = "image"
    /\ \E c \in responses :
          dresult' = [data |-> designData, conceptArtUrl |-> ExtractImage(c)]
    /\ dpc' = "returned"
    /\ dtrace' = Append(dtrace, "resp:image")
    /\ UNCHANGED <<brief, weatherInfo, groundingFailed, groundingResponse, chatResponse, designData,
                   imageRequest, derror, console>>

DesignImageReturns ==
    /\ DesignImageReturnsWith(ImageResponses)
    /\ UNCHANGED nonDesignVars

\* the concept-art call rejects
DesignImageFailsStep ==
    /\ dpc = "image"
    /\ dpc' = "failed"
    /\ derror' = "TransportError"
    /\ dtrace' = Append(dtrace, "fail:image")
    /\ UNCHANGED <<brief, weatherInfo, groundingFailed, groundingResponse, chatResponse, designData,
                   imageRequest, dresult, console>>

DesignImageFails ==
    /\ DesignImageFailsStep
    /\ UNCHANGED nonDesignVars

NextDesign ==
    \/ DesignCall
    \/ GroundingReturns
    \/ GroundingFails
    \/ ChatReturns
    \/ ChatFails
    \/ DesignImageReturns
    \/ DesignImageFails

(***************************************************************************)
(* generateGarmentAsset, editGarmentImage, generateVirtualFit              *)
(***************************************************************************)

ImageOps == { "generateGarmentAsset", "editGarmentImage", "generateVirtualFit" }

\* the message of the error each operation throws when imageUrl is empty
NoImageError(op) ==
    IF op = "generateGarmentAsset" THEN "Failed to generate garment image."
    ELSE IF op = "editGarmentImage" THEN "Failed to edit image."
    ELSE "Failed to generate virtual fit image."

\* the operation without its check of the locator
IsEmptyLocatorUnchecked(url) == FALSE

\* if (!imageUrl) throw ...
IsEmptyLocator(url) == ~Truthy(url)

(***************************************************************************)
(* Prompt composition                                                      *)
(***************************************************************************)

\* A composed text is the sequence of its lines; an interpolation that yields ''
\* is kept as an empty line.

PhysicsValues  == { "static", "flow", "heavy", "wet" }
LightingValues == { "natural", "studio", "dramatic", "neon" }
ActionValues   == { "idle", "walking", "running", "fighting" }

\* the simConfig argument: absent, or a SimulationConfig.  The type is erased at run
\* time, so a field may hold a value outside its enumeration.
NoConfig == [present |-> FALSE, physics |-> Undefined, lighting |-> Undefined,
             action |-> Undefined, actorConstraints |-> Undefined]

SimConfigs ==
    [present : {TRUE},
     physics : PhysicsValues \cup {"frozen"},
     lighting : LightingValues \cup {"strobe"},
     action : ActionValues \cup {"dancing"},
     actorConstraints : {Undefined, "", "no tight collars"}]

HeavyClause    == "Fabric should hang heavily with minimal folds."
FlowClause     == "Fabric should react dynamically to air, showing movement."
WetClause      == "Fabric must appear damp, darker, and clinging to the skin."
DramaticClause == "High contrast, noir-style shadows."
NeonClause     == "Cyberpunk style colored rim lights (pink/blue)."

\* a composer whose wet clause is keyed by the wrong value
PhysicsClausesMiskeyed(cfg) ==
    << IF cfg.physics = "heavy" THEN HeavyClause ELSE "",
       IF cfg.physics = "flow" THEN FlowClause ELSE "",
       IF cfg.physics # "static" THEN WetClause ELSE "" >>

\* the three conditional lines after the Fabric Physics line
PhysicsClauses(cfg) ==
    << IF cfg.physics = "heavy" THEN HeavyClause ELSE "",
       IF cfg.physics = "flow" THEN FlowClause ELSE "",
       IF cfg.physics = "wet" THEN WetClause ELSE "" >>

\* the two conditional lines after the Lighting Synthesis line
LightingClauses(cfg) ==
    << IF cfg.lighting = "dramatic" THEN DramaticClause ELSE "",
       IF cfg.lighting = "neon" THEN NeonClause ELSE "" >>

SafetyPrefix == "- **ACTOR CONSTRAINTS / SAFETY:** "
SafetySuffix == ". (Priority: High - Ensure these constraints modify the fit visually)."

\* a composer that emits the safety line whenever the field is defined
SafetyClauseWhenDefined(cfg) ==
    IF cfg.actorConstraints # Undefined
    THEN SafetyPrefix \o cfg.actorConstraints \o SafetySuffix
    ELSE ""

\* the ACTOR CONSTRAINTS line
SafetyClause(cfg) ==
    IF Truthy(cfg.actorConstraints)
    THEN SafetyPrefix \o cfg.actorConstraints \o SafetySuffix
    ELSE ""

\* let physicsPrompt = ""; if (simConfig) physicsPrompt = `...`
PhysicsPrompt(cfg) ==
    IF ~cfg.present THEN <<"">>
    ELSE << "[PHYSICS & LIGHTING ENGINE SETTINGS]",
            "- **Fabric Physics:** Simulate '" \o Str(cfg.physics) \o "' weight." >>
         \o PhysicsClauses(cfg)
         \o << "- **Lighting Synthesis:** Apply '" \o Str(cfg.lighting) \o "' lighting." >>
         \o LightingClauses(cfg)
         \o << "- **Pose Estimation:** Adapt the garment to the actor's '" \o Str(cfg.action)
                  \o "' pose rigorously.",
               SafetyClause(cfg) >>

\* ${context ? `[CONTEXT & ENVIRONMENT] ${context}` : ''}
ContextBlock(context) ==
    IF Truthy(context) THEN << "[CONTEXT & ENVIRONMENT]", context >> ELSE <<"">>

\* a composer that places the environment block after the simulation directives
FitPromptContextLast(description, context, cfg) ==
    << "Act as a professional high-end VFX compositor for film.",
       "Task: Realistically digitally dress the person in the 'Model Image' with the clothing item from the 'Garment Image'.",
       "Garment Description: " \o Str(description) >>
    \o PhysicsPrompt(cfg)
    \o ContextBlock(context)
    \o << "Requirements:" >>

\* the prompt of generateVirtualFit
FitPrompt(description, context, cfg) ==
    << "Act as a professional high-end VFX compositor for film.",
       "Task: Realistically digitally dress the person in the 'Model Image' with the clothing item from the 'Garment Image'.",
       "Garment Description: " \o Str(description) >>
    \o ContextBlock(context)
    \o PhysicsPrompt(cfg)
    \o << "Requirements:",
          "1. **Computer Vision Match:** The clothing must perfectly align with the actor's skeleton rig and posture.",
          "2. **Photorealism:** Match the film grain, resolution, and sensor noise of the Model Image.",
          "3. **Integrity:** Do NOT change the model's face, hair, or background. Only replace the clothing." >>

\* the prompt of generateGarmentAsset
GarmentPrompt(description) ==
    << "Generate a high-quality, photorealistic image of a single clothing item: " \o Str(description) \o ".",
       "The item should be isolated on a plain white or transparent background.",
       "Flat lay photography style or ghost mannequin style.",
       "Professional fashion product photography.",
       "No models, no human body parts, just the garment.",
       "Centered, entire item visible." >>

\* a composer that adds a line once a warning has been written to the console
PromptOfAfterWarning(op, args) ==
    IF op = "generateVirtualFit"
    THEN FitPrompt(args.description, args.context, args.simConfig)
            \o (IF console # <<>> THEN <<"Note: an earlier request failed.">> ELSE <<>>)
    ELSE IF op = "generateGarmentAsset" THEN GarmentPrompt(args.description)
    ELSE << args.description >>

\* the text sent by each operation
PromptOf(op, args) ==
    IF op = "generateVirtualFit" THEN FitPrompt(args.description, args.context, args.simConfig)
    ELSE IF op = "generateGarmentAsset" THEN GarmentPrompt(args.description)
    ELSE << args.description >>

Descriptions == { "a grey wool coat" }
Contexts     == { Undefined, "", "Weather: Rainy, 50F. Constraints: Camera: avoid moire" }

\* the arguments of an invocation: description (the edit directive of
\* editGarmentImage), and for generateVirtualFit the context and the simConfig
ArgsOf(op) ==
    IF op = "generateVirtualFit"
    THEN [description : Descriptions, context : Contexts, simConfig : SimConfigs \cup {NoConfig}]
    ELSE [description : Descriptions, context : {Undefined}, simConfig : {NoConfig}]

NoArgs == [description |-> None, context |-> Undefined, simConfig |-> NoConfig]

InitImage ==
    /\ ipc = "idle"
    /\ iop = None
    /\ iargs = NoArgs
    /\ iprompt = <<>>
    /\ iresponse = <<>>
    /\ iresult = None
    /\ ierror = None

\* the caller invokes operation op with arguments of `argset`: the text is composed
\* and ai.models.generateContent is issued
ImageCallWith(op, argset) ==
    /\ ipc = "idle"
    /\ iop' = op
    /\ \E args \in argset :
          /\ iargs' = args
          /\ iprompt' = PromptOf(op, args)
    /\ ipc' = "await"
    /\ UNCHANGED <<iresponse, iresult, ierror>>

ImageCall ==
    /\ \E op \in ImageOps : ImageCallWith(op, ArgsOf(op))
    /\ UNCHANGED nonImageVars

\* the call resolves with a response of `responses`: the locator is extracted and
\* returned, or the operation throws
ImageReturnsWith(responses) ==
    /\ ipc = "await"
    /\ \E c \in responses :
          /\ iresponse' = c
          /\ IF IsEmptyLocator(ExtractImage(c))
             THEN /\ ipc' = "failed"
                  /\ ierror' = NoImageError(iop)
                  /\ UNCHANGED iresult
             ELSE /\ ipc' = "returned"
                  /\ iresult' = ExtractImage(c)
                  /\ UNCHANGED ierror
    /\ UNCHANGED <<iop, iargs, iprompt>>

ImageReturns ==
    /\ ImageReturnsWith(ImageResponses)
    /\ UNCHANGED nonImageVars

\* the call rejects
ImageFailsStep ==
    /\ ipc = "await"
    /\ ipc' = "failed"
    /\ ierror' = "TransportError"
    /\ UNCHANGED <<iop, iargs, iprompt, iresponse, iresult>>

ImageFails ==
    /\ ImageFailsStep
    /\ UNCHANGED nonImageVars

NextImage ==
    \/ ImageCall
    \/ ImageReturns
    \/ ImageFails

(***************************************************************************)
(* analyzeFitCompatibility                                                 *)
(***************************************************************************)

\* constraints: string = "None"
ConstraintArgs == { Undefined, "no tight collars" }
DefaultConstraints(c) == IF c = Undefined THEN "None" ELSE c

AnalysisKeys == { "compatibilityScore", "safetyIssues", "fabricNotes", "movementPrediction" }

\* the JSON values the analysis call can answer with: an object holding all or
\* all but one of the schema's properties, or null
AnalysisObjects ==
    { [kind |-> "object", keys |-> AnalysisKeys \ missing] :
         missing \in { {} } \cup { {k} : k \in AnalysisKeys } }
    \cup { [kind |-> "null", keys |-> {}] }

NoAnalysis == [kind |-> "none", keys |-> {}]

\* response.text of the analysis call: undefined, '', text that is no JSON, a JSON
\* value wrapped in code-fence markup, or the serialisation of a JSON value
AnalysisTexts ==
    { [form |-> f, value |-> NoAnalysis] : f \in {"undefined", "empty", "garbage"} }
    \cup { [form |-> "fenced", value |-> [kind |-> "object", keys |-> AnalysisKeys]] }
    \cup { [form |-> "json", value |-> v] : v \in AnalysisObjects }

NoText == [form |-> "none", value |-> NoAnalysis]

\* if (!text)
TextMissing(text) == text.form \in {"undefined", "empty"}

InitAnalyze ==
    /\ apc = "idle"
    /\ aargs = [imageBytes |-> None, constraints |-> None]
    /\ aresponse = NoText
    /\ aresult = NoAnalysis
    /\ aerror = None

\* the caller invokes analyzeFitCompatibility: ai.models.generateContent is issued
AnalyzeCall ==
    /\ apc = "idle"
    /\ \E img \in FittedImages, c \in ConstraintArgs :
          aargs' = [imageBytes |-> Base64Of(img), constraints |-> DefaultConstraints(c)]
    /\ apc' = "await"
    /\ UNCHANGED <<aresponse, aresult, aerror>>
    /\ UNCHANGED nonAnalyzeVars

\* the call resolves: a missing text throws, otherwise JSON.parse(text) is returned
\* or its SyntaxError propagates
AnalyzeReturns ==
    /\ apc = "await"
    /\ \E t \in AnalysisTexts :
          /\ aresponse' = t
          /\ IF TextMissing(t)
             THEN /\ apc' = "failed"
                  /\ aerror' = "Analysis failed to generate text."
                  /\ UNCHANGED aresult
             ELSE IF ~ParseJson(t).ok
             THEN /\ apc' = "failed"
                  /\ aerror' = "SyntaxError"
                  /\ UNCHANGED aresult
             ELSE /\ apc' = "returned"
                  /\ aresult' = ParseJson(t).value
                  /\ UNCHANGED aerror
    /\ UNCHANGED aargs
    /\ UNCHANGED nonAnalyzeVars

\* the call rejects
AnalyzeFails ==
    /\ apc = "await"
    /\ apc' = "failed"
    /\ aerror' = "TransportError"
    /\ UNCHANGED <<aargs, aresponse, aresult>>
    /\ UNCHANGED nonAnalyzeVars

NextAnalyze ==
    \/ AnalyzeCall
    \/ AnalyzeReturns
    \/ AnalyzeFails

(***************************************************************************)
(* The operations on a few inputs, for the specifications that run         *)
(* several operations side by side                                         *)
(***************************************************************************)

SmallBriefs == { b \in Briefs : b.filmingLocation = "London" }

SmallGrounding == { r \in GroundingResponses : r.text = "Rainy, 50F" /\ r.chunks = <<"https://src/1">> }

\* a complete JSON object, text that is no JSON, and a tool-call request
SmallChat ==
    { r \in ChatResponses :
         \/ r.kind = "toolcall" /\ r.tool = "getWeather"
         \/ r.kind = "text" /\ r.text.form = "garbage"
         \/ /\ r.kind = "text" /\ r.text.form = "json"
            /\ r.text.value.keys = AllOk
            /\ r.text.value.imagePrompt = "a grey trench coat"
            /\ r.text.value.realWeather.temp = 50 }

\* a response without a candidate and a response with one image payload
SmallImages == { c \in ImageResponses : c = <<>> \/ c = << <<PngPart>> >> }

DesignCallSmall ==
    /\ DesignCallWith(SmallBriefs)
    /\ UNCHANGED nonDesignVars

GroundingReturnsSmall ==
    /\ GroundingReturnsWith(SmallGrounding)
    /\ UNCHANGED nonDesignVars

ChatReturnsSmall ==
    /\ ChatReturnsWith(SmallChat)
    /\ UNCHANGED nonDesignVars

DesignImageReturnsSmall ==
    /\ DesignImageReturnsWith(SmallImages)
    /\ UNCHANGED nonDesignVars

ImageReturnsSmall ==
    /\ ImageReturnsWith(SmallImages)
    /\ UNCHANGED nonImageVars

\* generateVirtualFit on a few arguments: no simConfig, or one of the controls'
\* physics and constraint values
SmallFitArgs ==
    { a \in ArgsOf("generateVirtualFit") :
         \/ a.simConfig = NoConfig
         \/ /\ a.simConfig.physics \in {"static", "wet"}
            /\ a.simConfig.lighting = "natural"
            /\ a.simConfig.action = "idle"
            /\ a.simConfig.actorConstraints \in {"", "no tight collars"} }

FitCallSmall ==
    /\ ImageCallWith("generateVirtualFit", SmallFitArgs)
    /\ UNCHANGED nonImageVars

\* the caller has the outcome of its generateVirtualFit call and can call again;
\* lastFit remembers this call or keeps the earlier one it holds
FitSettled ==
    /\ ipc \in {"returned", "failed"}
    /\ iop = "generateVirtualFit"
    /\ \/ lastFit' = [args |-> iargs, prompt |-> iprompt]
       \/ lastFit' = lastFit
    /\ ipc' = "idle"
    /\ iop' = None
    /\ iargs' = [description |-> None, context |-> Undefined, simConfig |-> NoConfig]
    /\ iprompt' = <<>>
    /\ iresponse' = <<>>
    /\ iresult' = None
    /\ ierror' = None
    /\ UNCHANGED <<videoVars, designVars, analyzeVars, logVars, appVars, wizardVars, fittingVars, clicks,
                   beforeFit, startedOver>>

\* generateProfessionalDesign after its invocation
DesignSteps ==
    \/ GroundingReturnsSmall
    \/ GroundingFails
    \/ ChatReturnsSmall
    \/ ChatFails
    \/ DesignImageReturnsSmall
    \/ DesignImageFails

\* generateStressTestVideo and its remote job after the invocation
VideoSteps ==
    \/ RemoteFinish
    \/ VideoStartReturns
    \/ VideoStartFails
    \/ VideoSleepDone
    \/ VideoPollReturns
    \/ VideoPollFails

(***************************************************************************)
(* App (director mode) and FittingRoom                                     *)
(***************************************************************************)

\* bound on the number of brief submissions and render / export clicks of a run
MaxActions == 2

NoFit == [args |-> NoArgs, prompt |-> <<>>]

\* the frame of a settled invocation is gone: the operation can be invoked again
ResetDesign ==
    /\ dpc' = "idle"
    /\ brief' = [filmingLocation |-> None, characterProfile |-> None]
    /\ weatherInfo' = NoWeather
    /\ groundingFailed' = FALSE
    /\ groundingResponse' = NoGrounding
    /\ chatResponse' = NoResponse
    /\ designData' = NoData
    /\ imageRequest' = None
    /\ dresult' = NoResult
    /\ derror' = None
    /\ dtrace' = <<>>

ResetImage ==
    /\ ipc' = "idle"
    /\ iop' = None
    /\ iargs' = NoArgs
    /\ iprompt' = <<>>
    /\ iresponse' = <<>>
    /\ iresult' = None
    /\ ierror' = None

ResetVideo ==
    /\ vpc' = "idle"
    /\ vargs' = [imageBytes |-> None, actionType |-> None]
    /\ operation' = PendingJob
    /\ remote' = PendingJob
    /\ vresult' = None
    /\ verror' = None
    /\ nSleeps' = 0
    /\ nPolls' = 0
    /\ startLog' = <<>>
    /\ pollLog' = <<>>

\* the values the controls of this model set
UiPhysics     == { "static", "wet" }
UiActions     == { "idle", "running" }
UiConstraints == { "", "no tight collars" }
UiFiles       == { "actor.jpg" }
UiGarments    == { "a grey wool coat" }

\* contextParts.join('. ') for the initialWeather and initialConstraints props
FitContext(weather, constraints) ==
    LET parts == (IF Truthy(weather) THEN << "Weather: " \o weather >> ELSE <<>>)
                 \o (IF Truthy(constraints) THEN << "Constraints: " \o constraints >> ELSE <<>>)
    IN IF Len(parts) = 0 THEN ""
       ELSE IF Len(parts) = 1 THEN parts[1]
       ELSE parts[1] \o ". " \o parts[2]

\* fittedImageUrl.split(',')[1] of a locator built by the image extraction
LocatorData(url) ==
    Str((CHOOSE part \in {PngPart, JpegPart, BarePart} : DataUrl(part) = url).data)

\* designToFit of a FittingRoom opened from the hub: every prop is undefined
NoDesignToFit ==
    [present |-> FALSE, url |-> Undefined, name |-> Undefined, description |-> Undefined,
     weather |-> Undefined, constraints |-> Undefined]

\* the object handleMoveToFitting builds from the design result; the texts of the
\* look (title, breakdown, production notes) are those of one sample look
DesignToFit(result) ==
    [present |-> TRUE,
     url |-> result.conceptArtUrl,
     name |-> "Noir Trench",
     description |-> "Title: Noir Trench. Basics: shirt. Layers: trench coat. Materials: wool. Color Palette: grey.",
     weather |-> Str(result.data.realWeather.condition) \o ", "
                    \o ToString(result.data.realWeather.temp) \o "°F",
     constraints |-> "Camera: avoid moire. Notes: 3 copies"]

\* the texts typed into the fields of the StartScreen
FieldTexts ==
    [projectType |-> { "", "TV", "Noir" },
     sceneContext |-> { "", "alley", "EXT. ALLEY" },
     characterProfile |-> { "", "a tired detective" },
     psychologicalState |-> { "", "ok", "nervous" },
     filmingLocation |-> { "", "UK", "London" },
     productionConstraints |-> { "", "Low budget" }]

\* the fields the StartScreen renders at a step
FieldsOfStep(s) ==
    IF s = 1 THEN { "projectType", "sceneContext" }
    ELSE IF s = 2 THEN { "characterProfile", "psychologicalState" }
    ELSE { "filmingLocation", "productionConstraints" }

EmptyBrief == [f \in DOMAIN FieldTexts |-> ""]

IsStep1Valid(b) == Len(b.projectType) > 2 /\ Len(b.sceneContext) > 5
IsStep2Valid(b) == Len(b.characterProfile) > 2 /\ Len(b.psychologicalState) > 2
IsStep3Valid(b) == Len(b.filmingLocation) > 2

\* disabled={step === 1 ? !isStep1Valid : step === 2 ? !isStep2Valid : !isStep3Valid}
NextDisabled(s, b) ==
    IF s = 1 THEN ~IsStep1Valid(b) ELSE IF s = 2 THEN ~IsStep2Valid(b) ELSE ~IsStep3Valid(b)

\* the fields of the DesignBrief that generateProfessionalDesign's control flow reads
BriefOf(b) == [filmingLocation |-> b.filmingLocation, characterProfile |-> b.characterProfile]

InitApp ==
    /\ mode = "home"
    /\ directorView = "brief"
    /\ directorResult = NoResult
    /\ error = None
    /\ designToFit = NoDesignToFit

InitWizard ==
    /\ step = 1
    /\ wbrief = EmptyBrief

InitFitting ==
    /\ modelFile = None
    /\ selectedGarment = None
    /\ simConfig = [present |-> TRUE, physics |-> "static", lighting |-> "natural",
                    action |-> "idle", actorConstraints |-> ""]
    /\ generatedImage = None
    /\ previousImage = None
    /\ videoUrl = None
    /\ isLoading = FALSE
    /\ isCompareMode = FALSE
    /\ garmentLoading = FALSE

InitHistory ==
    /\ clicks = 0
    /\ lastFit = NoFit
    /\ beforeFit = [generatedImage |-> None, previousImage |-> None]
    /\ startedOver = FALSE

\* the StartScreen is on screen
StartScreenShown == mode = "director" /\ directorView = "brief"

\* a StartScreen that leaves the screen loses its state: the next one starts afresh
UnmountStartScreen ==
    /\ step' = 1
    /\ wbrief' = EmptyBrief

\* a FittingRoom that leaves the screen loses its state, and the completion of a call
\* it has in flight sets the state of no mounted component: the call is abandoned
UnmountFittingRoom ==
    /\ modelFile' = None
    /\ selectedGarment' = None
    /\ simConfig' = [present |-> TRUE, physics |-> "static", lighting |-> "natural",
                     action |-> "idle", actorConstraints |-> ""]
    /\ generatedImage' = None
    /\ previousImage' = None
    /\ videoUrl' = None
    /\ isLoading' = FALSE
    /\ isCompareMode' = FALSE
    /\ garmentLoading' = FALSE
    /\ ResetImage
    /\ ResetVideo

(* ---- App ---- *)

\* the Costume Director card of the hub
EnterDirector ==
    /\ mode = "home"
    /\ mode' = "director"
    /\ UNCHANGED <<directorView, directorResult, error, designToFit>>
    /\ UNCHANGED <<wizardVars, fittingVars, historyVars>>
    /\ UNCHANGED <<videoVars, designVars, imageVars, analyzeVars, logVars>>

\* the Fitting Room card of the hub: a FittingRoom without props is mounted
EnterFitting ==
    /\ mode = "home"
    /\ mode' = "fitting"
    /\ UNCHANGED <<directorView, directorResult, error, designToFit>>
    /\ UNCHANGED <<wizardVars, fittingVars, historyVars>>
    /\ UNCHANGED <<videoVars, designVars, imageVars, analyzeVars, logVars>>

\* Back to Hub that also leaves the processing view
BackToHubResetsView ==
    /\ mode = "director"
    /\ mode' = "home"
    /\ directorView' = "brief"
    /\ UnmountStartScreen
    /\ UNCHANGED <<directorResult, error, designToFit>>
    /\ UNCHANGED <<fittingVars, historyVars>>
    /\ UNCHANGED <<videoVars, designVars, imageVars, analyzeVars, logVars>>

\* Back to Hub of the director mode
BackToHub ==
    /\ mode = "director"
    /\ mode' = "home"
    /\ UnmountStartScreen
    /\ UNCHANGED <<directorView, directorResult, error, designToFit>>
    /\ UNCHANGED <<fittingVars, historyVars>>
    /\ UNCHANGED <<videoVars, designVars, imageVars, analyzeVars, logVars>>

\* onComplete(brief) of the StartScreen: handleBriefComplete up to its await
HandleBriefCompleteWith(briefs) ==
    /\ StartScreenShown
    /\ clicks < MaxActions
    /\ clicks' = clicks + 1
    /\ directorView' = "processing"
    /\ error' = None
    /\ DesignCallWith(briefs)
    /\ UnmountStartScreen
    /\ UNCHANGED <<mode, directorResult, designToFit, fittingVars, ghostVars>>
    /\ UNCHANGED <<videoVars, imageVars, analyzeVars>>

\* a StartScreen completes with some brief
HandleBriefComplete == HandleBriefCompleteWith(SmallBriefs)

\* generateProfessionalDesign resolves: the rest of the try block
BriefResolves ==
    /\ directorView = "processing"
    /\ dpc = "returned"
    /\ directorResult' = dresult
    /\ directorView' = "lookbook"
    /\ ResetDesign
    /\ UNCHANGED <<mode, error, designToFit, wizardVars, fittingVars, historyVars>>
    /\ UNCHANGED <<videoVars, imageVars, analyzeVars, logVars>>

\* a catch block that submits the brief again
BriefRejectsRetry ==
    /\ directorView = "processing"
    /\ dpc = "failed"
    /\ error' = "Design generation failed"
    /\ directorView' = "processing"
    /\ dpc' = "grounding"
    /\ dtrace' = <<"call:grounding">>
    /\ derror' = None
    /\ UNCHANGED <<brief, weatherInfo, groundingFailed, groundingResponse, chatResponse,
                   designData, imageRequest, dresult>>
    /\ UNCHANGED <<mode, directorResult, designToFit, wizardVars, fittingVars, historyVars>>
    /\ UNCHANGED <<videoVars, imageVars, analyzeVars, logVars>>

\* generateProfessionalDesign rejects: the catch block
BriefRejects ==
    /\ directorView = "processing"
    /\ dpc = "failed"
    /\ error' = "Design generation failed"
    /\ directorView' = "brief"
    /\ ResetDesign
    /\ UNCHANGED <<mode, directorResult, designToFit, wizardVars, fittingVars, historyVars>>
    /\ UNCHANGED <<videoVars, imageVars, analyzeVars, logVars>>

\* the New Brief button of the lookbook
HandleDirectorStartOver ==
    /\ mode = "director"
    /\ directorView = "lookbook"
    /\ directorResult # NoResult
    /\ directorResult' = NoResult
    /\ directorView' = "brief"
    /\ error' = None
    /\ UNCHANGED <<mode, designToFit, wizardVars, fittingVars, historyVars>>
    /\ UNCHANGED <<videoVars, designVars, imageVars, analyzeVars, logVars>>

\* the Try on Actor button of the lookbook: reading a field of an object the result
\* lacks throws before any state is set; otherwise a FittingRoom with the design's
\* props is mounted, whose effect starts loading the garment when it has a url
HandleMoveToFitting ==
    /\ mode = "director"
    /\ directorView = "lookbook"
    /\ directorResult # NoResult
    /\ Truthy(directorResult.conceptArtUrl) => clicks < MaxActions
    /\ IF \A k \in {"breakdown", "realWeather", "productionNotes"} :
              directorResult.data.keys[k] = "ok"
       THEN /\ designToFit' = DesignToFit(directorResult)
            /\ mode' = "fitting"
            /\ isLoading' = Truthy(directorResult.conceptArtUrl)
            /\ garmentLoading' = Truthy(directorResult.conceptArtUrl)
            /\ clicks' = IF Truthy(directorResult.conceptArtUrl) THEN clicks + 1 ELSE clicks
       ELSE UNCHANGED <<designToFit, mode, isLoading, garmentLoading, clicks>>
    /\ UNCHANGED <<directorView, directorResult, error>>
    /\ UNCHANGED <<modelFile, selectedGarment, simConfig, generatedImage, previousImage, videoUrl,
                   isCompareMode>>
    /\ UNCHANGED <<wizardVars, ghostVars>>
    /\ UNCHANGED <<videoVars, designVars, imageVars, analyzeVars, logVars>>

(* ---- StartScreen ---- *)

\* a field of the current step is edited: setBrief({...brief, field: value})
EditField ==
    /\ StartScreenShown
    /\ \E f \in FieldsOfStep(step) : \E v \in FieldTexts[f] :
          /\ v # wbrief[f]
          /\ wbrief' = [wbrief EXCEPT ![f] = v]
    /\ UNCHANGED step
    /\ UNCHANGED <<appVars, fittingVars, historyVars>>
    /\ UNCHANGED <<videoVars, designVars, imageVars, analyzeVars, logVars>>

\* a Next button that is never disabled
HandleNextAlwaysEnabled ==
    /\ StartScreenShown
    /\ IF step < 3
       THEN /\ step' = step + 1
            /\ UNCHANGED wbrief
            /\ UNCHANGED <<appVars, fittingVars, historyVars>>
            /\ UNCHANGED <<videoVars, designVars, imageVars, analyzeVars, logVars>>
       ELSE HandleBriefCompleteWith({ BriefOf(wbrief) })

\* the Next Step / Generate Look button, which is disabled while the step is invalid
HandleNext ==
    /\ StartScreenShown
    /\ ~NextDisabled(step, wbrief)
    /\ IF step < 3
       THEN /\ step' = step + 1
            /\ UNCHANGED wbrief
            /\ UNCHANGED <<appVars, fittingVars, historyVars>>
            /\ UNCHANGED <<videoVars, designVars, imageVars, analyzeVars, logVars>>
       ELSE HandleBriefCompleteWith({ BriefOf(wbrief) })

\* the Back button, rendered from step 2 on
HandleBack ==
    /\ StartScreenShown
    /\ step > 1
    /\ step' = step - 1
    /\ UNCHANGED wbrief
    /\ UNCHANGED <<appVars, fittingVars, historyVars>>
    /\ UNCHANGED <<videoVars, designVars, imageVars, analyzeVars, logVars>>

(* ---- FittingRoom ---- *)

\* BACK TO HUB of the FittingRoom: onBack
FittingBack ==
    /\ mode = "fitting"
    /\ mode' = "home"
    /\ designToFit' = NoDesignToFit
    /\ UnmountFittingRoom
    /\ UNCHANGED <<directorView, directorResult, error>>
    /\ startedOver' = FALSE
    /\ UNCHANGED <<wizardVars, clicks, lastFit, beforeFit>>
    /\ UNCHANGED <<designVars, analyzeVars, logVars>>

\* urlToFile resolves in the initial load effect: the design's garment is selected
GarmentLoadResolves ==
    /\ garmentLoading
    /\ selectedGarment' = designToFit.name
    /\ isLoading' = FALSE
    /\ garmentLoading' = FALSE
    /\ UNCHANGED <<modelFile, simConfig, generatedImage, previousImage, videoUrl, isCompareMode>>
    /\ UNCHANGED <<appVars, wizardVars, historyVars>>
    /\ UNCHANGED <<videoVars, designVars, imageVars, analyzeVars, logVars>>

\* urlToFile rejects in the initial load effect
GarmentLoadRejects ==
    /\ garmentLoading
    /\ console' = Append(console, <<"Failed to load initial garment", "TransportError">>)
    /\ isLoading' = FALSE
    /\ garmentLoading' = FALSE
    /\ UNCHANGED <<modelFile, selectedGarment, simConfig, generatedImage, previousImage, videoUrl,
                   isCompareMode>>
    /\ UNCHANGED <<appVars, wizardVars, historyVars>>
    /\ UNCHANGED <<videoVars, designVars, imageVars, analyzeVars>>

\* an actor photo is chosen (the input is rendered while there is no preview)
HandleModelUpload ==
    /\ mode = "fitting"
    /\ modelFile = None
    /\ \E f \in UiFiles : modelFile' = f
    /\ generatedImage' = None
    /\ videoUrl' = None
    /\ UNCHANGED <<selectedGarment, simConfig, previousImage, isLoading, isCompareMode,
                   garmentLoading>>
    /\ UNCHANGED <<appVars, wizardVars, historyVars>>
    /\ UNCHANGED <<videoVars, designVars, imageVars, analyzeVars, logVars>>

\* a garment of the wardrobe is chosen
HandleGarmentSelect ==
    /\ mode = "fitting"
    /\ \E g \in UiGarments : selectedGarment' = g
    /\ UNCHANGED <<modelFile, simConfig, generatedImage, previousImage, videoUrl, isLoading,
                   isCompareMode, garmentLoading>>
    /\ UNCHANGED <<appVars, wizardVars, historyVars>>
    /\ UNCHANGED <<videoVars, designVars, imageVars, analyzeVars, logVars>>

\* one of the controls sets its field: setSimConfig({...simConfig, field: value})
SetSimConfigWith(physics, actions, constraints) ==
    /\ mode = "fitting"
    /\ \/ \E v \in physics : simConfig' = [simConfig EXCEPT !.physics = v]
       \/ \E v \in actions : simConfig' = [simConfig EXCEPT !.action = v]
       \/ \E v \in constraints : simConfig' = [simConfig EXCEPT !.actorConstraints = v]
    /\ UNCHANGED <<modelFile, selectedGarment, generatedImage, previousImage, videoUrl, isLoading,
                   isCompareMode, garmentLoading>>
    /\ UNCHANGED <<appVars, wizardVars, historyVars>>
    /\ UNCHANGED <<videoVars, designVars, imageVars, analyzeVars, logVars>>

SetSimConfig == SetSimConfigWith(UiPhysics, ActionValues, UiConstraints)

\* the pose buttons alone
SetAction == SetSimConfigWith({}, UiActions, {})

\* descriptionToUse: the design's description for the garment loaded from the design
DescriptionToUse ==
    IF designToFit.present /\ selectedGarment = designToFit.name
          /\ Truthy(designToFit.description)
    THEN designToFit.description
    ELSE selectedGarment

\* the render button: handleFitProcess up to its await
HandleFitProcess ==
    /\ mode = "fitting"
    /\ modelFile # None
    /\ selectedGarment # None
    /\ ~isLoading
    /\ clicks < MaxActions
    /\ clicks' = clicks + 1
    /\ previousImage' = IF generatedImage # None THEN generatedImage ELSE previousImage
    /\ isLoading' = TRUE
    /\ videoUrl' = None
    /\ isCompareMode' = FALSE
    /\ ImageCallWith("generateVirtualFit",
                     { [description |-> DescriptionToUse,
                        context |-> FitContext(designToFit.weather, designToFit.constraints),
                        simConfig |-> simConfig] })
    /\ beforeFit' = [generatedImage |-> generatedImage, previousImage |-> previousImage]
    /\ UNCHANGED <<modelFile, selectedGarment, simConfig, generatedImage, garmentLoading, lastFit,
                   startedOver>>
    /\ UNCHANGED <<appVars, wizardVars>>
    /\ UNCHANGED <<videoVars, designVars, analyzeVars, logVars>>

\* generateVirtualFit resolves: setGeneratedImage, then the finally block
FitResolves ==
    /\ ipc = "returned"
    /\ iop = "generateVirtualFit"
    /\ generatedImage' = iresult
    /\ isLoading' = FALSE
    /\ ResetImage
    /\ UNCHANGED <<modelFile, selectedGarment, simConfig, previousImage, videoUrl, isCompareMode,
                   garmentLoading>>
    /\ startedOver' = FALSE
    /\ UNCHANGED <<appVars, wizardVars, clicks, lastFit, beforeFit>>
    /\ UNCHANGED <<videoVars, designVars, analyzeVars, logVars>>

\* generateVirtualFit rejects: the alert, then the finally block
FitRejects ==
    /\ ipc = "failed"
    /\ iop = "generateVirtualFit"
    /\ isLoading' = FALSE
    /\ ResetImage
    /\ UNCHANGED <<modelFile, selectedGarment, simConfig, generatedImage, previousImage, videoUrl,
                   isCompareMode, garmentLoading>>
    /\ startedOver' = FALSE
    /\ UNCHANGED <<appVars, wizardVars, clicks, lastFit, beforeFit>>
    /\ UNCHANGED <<videoVars, designVars, analyzeVars, logVars>>

\* an export that passes the action of the controls as it is
VideoActionUnmapped(cfg) == cfg.action

\* simConfig.action === 'idle' ? 'walking' : simConfig.action
VideoAction(cfg) == IF cfg.action = "idle" THEN "walking" ELSE cfg.action

\* the export button: handleVideoExport up to its await
HandleVideoExport ==
    /\ mode = "fitting"
    /\ generatedImage # None
    /\ ~isLoading
    /\ clicks < MaxActions
    /\ clicks' = clicks + 1
    /\ isLoading' = TRUE
    /\ VideoCallWith({ LocatorData(generatedImage) }, { VideoAction(simConfig) })
    /\ UNCHANGED <<modelFile, selectedGarment, simConfig, generatedImage, previousImage, videoUrl,
                   isCompareMode, garmentLoading, ghostVars>>
    /\ UNCHANGED <<appVars, wizardVars>>
    /\ UNCHANGED <<designVars, imageVars, analyzeVars, logVars>>

\* generateStressTestVideo resolves: setVideoUrl, then the finally block
VideoResolves ==
    /\ vpc = "returned"
    /\ videoUrl' = vresult
    /\ isLoading' = FALSE
    /\ ResetVideo
    /\ UNCHANGED <<modelFile, selectedGarment, simConfig, generatedImage, previousImage,
                   isCompareMode, garmentLoading>>
    /\ startedOver' = FALSE
    /\ UNCHANGED <<appVars, wizardVars, clicks, lastFit, beforeFit>>
    /\ UNCHANGED <<designVars, imageVars, analyzeVars, logVars>>

\* generateStressTestVideo rejects: the alert, then the finally block
VideoRejects ==
    /\ vpc = "failed"
    /\ isLoading' = FALSE
    /\ ResetVideo
    /\ UNCHANGED <<modelFile, selectedGarment, simConfig, generatedImage, previousImage, videoUrl,
                   isCompareMode, garmentLoading>>
    /\ startedOver' = FALSE
    /\ UNCHANGED <<appVars, wizardVars, clicks, lastFit, beforeFit>>
    /\ UNCHANGED <<designVars, imageVars, analyzeVars, logVars>>

\* the A/B button, rendered while there are two renders and no video
ToggleCompare ==
    /\ mode = "fitting"
    /\ previousImage # None /\ generatedImage # None /\ videoUrl = None
    /\ isCompareMode' = IF previousImage # None /\ generatedImage # None
                        THEN ~isCompareMode ELSE isCompareMode
    /\ UNCHANGED <<modelFile, selectedGarment, simConfig, generatedImage, previousImage, videoUrl,
                   isLoading, garmentLoading>>
    /\ UNCHANGED <<appVars, wizardVars, historyVars>>
    /\ UNCHANGED <<videoVars, designVars, imageVars, analyzeVars, logVars>>

\* a Start Over that leaves the comparison as it is
HandleStartOverKeepsCompare ==
    /\ mode = "fitting"
    /\ modelFile # None
    /\ modelFile' = None
    /\ generatedImage' = None
    /\ videoUrl' = None
    /\ previousImage' = None
    /\ selectedGarment' = IF ~Truthy(designToFit.url) THEN None ELSE selectedGarment
    /\ UNCHANGED <<simConfig, isLoading, isCompareMode, garmentLoading>>
    /\ startedOver' = (startedOver \/ ipc # "idle" \/ vpc # "idle")
    /\ UNCHANGED <<appVars, wizardVars, clicks, lastFit, beforeFit>>
    /\ UNCHANGED <<videoVars, designVars, imageVars, analyzeVars, logVars>>

\* the Start Over of the Canvas, which is rendered while there is a preview
HandleStartOver ==
    /\ mode = "fitting"
    /\ modelFile # None
    /\ modelFile' = None
    /\ generatedImage' = None
    /\ videoUrl' = None
    /\ previousImage' = None
    /\ isCompareMode' = FALSE
    /\ selectedGarment' = IF ~Truthy(designToFit.url) THEN None ELSE selectedGarment
    /\ UNCHANGED <<simConfig, isLoading, garmentLoading>>
    /\ startedOver' = (startedOver \/ ipc # "idle" \/ vpc # "idle")
    /\ UNCHANGED <<appVars, wizardVars, clicks, lastFit, beforeFit>>
    /\ UNCHANGED <<videoVars, designVars, imageVars, analyzeVars, logVars>>

NextApp ==
    \/ EnterDirector
    \/ EnterFitting
    \/ BackToHub
    \/ HandleBriefComplete
    \/ DesignSteps
    \/ BriefResolves
    \/ BriefRejects
    \/ HandleDirectorStartOver
    \/ HandleMoveToFitting

NextWizard ==
    \/ EditField
    \/ HandleNext
    \/ HandleBack

\* the initial load effect of a FittingRoom opened from a lookbook
GarmentLoadSteps ==
    \/ GarmentLoadResolves
    \/ GarmentLoadRejects

NextFitting ==
    \/ FittingBack
    \/ HandleModelUpload
    \/ HandleGarmentSelect
    \/ HandleFitProcess
    \/ ImageReturnsSmall
    \/ ImageFails
    \/ FitResolves
    \/ FitRejects
    \/ HandleVideoExport
    \/ VideoSteps
    \/ VideoResolves
    \/ VideoRejects
    \/ ToggleCompare
    \/ HandleStartOver

(***************************************************************************)
(* Specifications                                                          *)
(***************************************************************************)

InitLog == console = <<>>

Init ==
    /\ InitVideo /\ InitDesign /\ InitImage /\ InitAnalyze /\ InitLog
    /\ InitApp /\ InitWizard /\ InitFitting /\ InitHistory

\* one generateStressTestVideo invocation and its remote job
SpecVideo == Init /\ [][NextVideo]_vars

\* the same, with the scheduling the runtime guarantees: a settled promise resumes
\* the awaiting code, a timer fires, and the remote side answers each call
FairSpecVideo ==
    /\ Init /\ [][NextVideo]_vars
    /\ WF_vars(VideoStartReturns)
    /\ WF_vars(VideoSleepDone)
    /\ WF_vars(VideoPollReturns)

\* one generateProfessionalDesign invocation
SpecDesign == Init /\ [][NextDesign]_vars

\* one invocation of an image operation
SpecImage == Init /\ [][NextImage]_vars

\* the two operations that parse a structured response, one invocation of each
\* (every conversational and analysis response, a few concept-art responses)
SpecStructured ==
    Init /\ [][DesignCall \/ GroundingReturns \/ GroundingFails \/ ChatReturns \/ ChatFails
                  \/ DesignImageReturnsSmall \/ DesignImageFails \/ NextAnalyze]_vars

\* a design generation and a video job running side by side
SpecConcurrent == Init /\ [][DesignCallSmall \/ DesignSteps \/ NextVideo]_vars

\* generateVirtualFit invoked again and again, next to a design generation
SpecCompose ==
    Init /\ [][FitCallSmall \/ ImageReturnsSmall \/ ImageFails \/ FitSettled
                  \/ DesignCallSmall \/ DesignSteps]_vars

\* the user interface: the handlers invoke the operations, which run side by side
SpecUI == Init /\ [][NextApp \/ GarmentLoadSteps \/ SetAction \/ NextFitting]_vars

\* a FittingRoom opened from the hub, with all its controls
SpecFitting == Init /\ [][EnterFitting \/ SetSimConfig \/ NextFitting]_vars

\* the StartScreen wizard inside the director mode
SpecWizard ==
    Init /\ [][NextWizard \/ EnterDirector \/ BackToHub \/ DesignSteps \/ BriefResolves
                  \/ BriefRejects \/ HandleDirectorStartOver]_vars

(***************************************************************************)
(* Properties                                                              *)
(***************************************************************************)

VideoFinished == vpc \in {"returned", "failed"}

\* a job status carries a result locator: a first generated video with a non-empty uri
HasLocator(job) == Len(job.videos) > 0 /\ job.videos[1] \notin {Undefined, ""}

\* C1: whenever the job is reported done without a result locator, by the start call
\* or by a poll, generateStressTestVideo raises and returns no locator; it returns a
\* locator only when the done job carries one.
C1_DoneWithoutLocatorRaises ==
    /\ (operation.done /\ ~HasLocator(operation)) =>
          /\ vpc = "failed"
          /\ verror = "Video generation failed or no URI returned."
          /\ vresult = None
    /\ vpc = "returned" => (operation.done /\ HasLocator(operation) /\ vresult # None)
    /\ vresult # None => vpc = "returned"

C1_Witness ==
    /\ vpc = "failed"
    /\ Len(pollLog) >= 1
    /\ operation.done
    /\ operation.videos = <<"">>

\* the scripted run: the start call answers done=false and the polls answer
\* done=false, done=false, done=true with a locator
ScriptedRun ==
    /\ VideoFinished
    /\ startLog = <<PendingJob>>
    /\ Len(pollLog) = 3
    /\ ~pollLog[1].done
    /\ ~pollLog[2].done
    /\ pollLog[3].done
    /\ HasLocator(pollLog[3])

\* C2 (as stated): on the scripted run the loop returns the final locator and has
\* slept exactly twice.
C2_SleepsTwice ==
    ScriptedRun =>
        /\ vpc = "returned"
        /\ vresult = pollLog[3].videos[1] \o "&key=" \o API_KEY
        /\ nSleeps = 2

\* C2 (amended): on the scripted run the loop returns the final locator and has slept
\* exactly three times, once before each of the three polls.
C2_SleepsBeforeEachPoll ==
    ScriptedRun =>
        /\ vpc = "returned"
        /\ vresult = pollLog[3].videos[1] \o "&key=" \o API_KEY
        /\ nSleeps = 3
        /\ nPolls = 3

C2_Witness == ScriptedRun /\ vpc = "returned"

\* C3: the polling loop is bounded only by the remote job.  Once the remote job is
\* done the operation completes; while the remote job is not done an answered poll
\* is always followed by another sleep and a sleep by another poll, whatever the
\* number of polls so far; and the operation returns or reports a failed job only
\* for a job reported done.
C3_BoundedOnlyByRemoteJob ==
    /\ [](remote.done /\ vpc \in {"start", "sleep", "poll"} => <>VideoFinished)
    /\ [][(vpc = "poll" /\ ~remote.done /\ vpc' # vpc)
              => (vpc' = "sleep" \/ verror' = "TransportError")]_vars
    /\ [][(vpc = "sleep" /\ vpc' # vpc) => vpc' = "poll"]_vars
    /\ [](VideoFinished /\ verror # "TransportError" => operation.done)

C3_Witness ==
    /\ vpc = "sleep"
    /\ ~remote.done
    /\ nPolls = MaxPolls
    /\ nSleeps = MaxPolls

Has(trace, e) == \E i \in DOMAIN trace : trace[i] = e
Count(trace, e) == Cardinality({ i \in DOMAIN trace : trace[i] = e })

\* C4: getRealWeatherWithSearch never raises: when the search-grounded call fails it
\* returns temperature 72, the default sunny condition, the requested location and no
\* sources, and generateProfessionalDesign goes on to the conversational stage.
C4_GroundingNeverRaises ==
    /\ groundingFailed =>
          /\ weatherInfo.temp = 72
          /\ weatherInfo.condition = "Sunny (Default)"
          /\ weatherInfo.sources = <<>>
          /\ weatherInfo.location = brief.filmingLocation
          /\ Len(dtrace) >= 3
          /\ dtrace[2] = "fail:grounding"
          /\ dtrace[3] = "call:chat"
    /\ dpc = "failed" => Has(dtrace, "call:chat")

C4_Witness == groundingFailed /\ dpc = "chat" /\ brief.filmingLocation = "London"

\* C5 (as stated): every structured result returned by generateProfessionalDesign has
\* all required keys with values of the right kind.
C5_ReturnedResultHasAllKeys ==
    dpc = "returned" => \A k \in Keys : dresult.data.keys[k] = "ok"

ImageFinished == ipc \in {"returned", "failed"}

\* C6: generateGarmentAsset, editGarmentImage and generateVirtualFit never return an
\* empty locator: without an inline payload in the response each raises its failure,
\* with one each returns a non-empty data locator made of a payload's media type and
\* data.
C6_NeverEmptyLocator ==
    /\ ipc = "returned" =>
          /\ iresult # ""
          /\ iresult # None
          /\ \E c \in DOMAIN iresponse : \E p \in DOMAIN iresponse[c] :
                /\ iresponse[c][p].inline
                /\ iresult = "data:" \o Str(iresponse[c][p].mimeType) \o ";base64,"
                                     \o Str(iresponse[c][p].data)
    /\ (ImageFinished /\ ierror # "TransportError") =>
          IF \E c \in DOMAIN iresponse : \E p \in DOMAIN iresponse[c] : iresponse[c][p].inline
          THEN ipc = "returned"
          ELSE ipc = "failed" /\ ierror = NoImageError(iop) /\ iresult = None

C6_Witness ==
    /\ ipc = "failed"
    /\ iop = "generateVirtualFit"
    /\ iresponse = <<(<<TextPart>>), <<>> >>

\* position of the first occurrence of an event in a trace (0: none)
Pos(trace, e) ==
    IF Has(trace, e) THEN CHOOSE i \in DOMAIN trace : trace[i] = e /\ \A j \in 1..(i - 1) : trace[j] # e
    ELSE 0

\* C7: in generateProfessionalDesign the stages run in the order grounding query,
\* conversational turn, parse, image synthesis; each call is issued once, only after
\* the response of the stage before it; the image call is issued only for a
\* conversational text that parsed, and a text that fails to parse aborts the
\* operation with an error.
C7_StagesInOrder ==
    /\ \A e \in {"call:grounding", "call:chat", "call:image"} : Count(dtrace, e) <= 1
    /\ Has(dtrace, "call:chat") =>
          /\ Pos(dtrace, "call:grounding") = 1
          /\ Pos(dtrace, "call:chat") = 3
          /\ dtrace[2] \in {"resp:grounding", "fail:grounding"}
    /\ Has(dtrace, "call:image") =>
          /\ Pos(dtrace, "call:image") = 6
          /\ dtrace[4] = "resp:chat"
          /\ dtrace[5] = "parse:ok"
          /\ chatResponse.kind = "text"
          /\ chatResponse.text.form = "json"
    /\ (chatResponse.kind # "none" /\ ResponseText(chatResponse).form # "json") =>
          /\ dpc = "failed"
          /\ derror = "Analysis failed. Please try again."
          /\ ~Has(dtrace, "call:image")
          /\ dresult = NoResult

C7_Witness ==
    /\ dpc = "failed"
    /\ chatResponse.kind = "text"
    /\ chatResponse.text.form = "garbage"

DesignFinished == dpc \in {"returned", "failed"}

\* C8 (as stated): when the first conversational response is a tool-call request, a
\* follow-up turn carrying the tool result is sent, so that the invocation has issued
\* two conversational calls when it ends.
C8_ToolCallGetsFollowUp ==
    (DesignFinished /\ chatResponse.kind = "toolcall") => Count(dtrace, "call:chat") = 2

C10_WeatherFieldsAreDefaults ==
    (dpc = "returned" /\ groundingFailed /\ chatResponse.kind = "text") =>
        /\ dresult.data.realWeather.temp = 72
        /\ dresult.data.realWeather.condition = "Sunny (Default)"
        /\ dresult.data.realWeather.sources = <<>>
        /\ Count(dtrace, "call:chat") = 1

\* C11 (as stated): once the structured result has parsed, a failure of the
\* concept-art stage never fails the operation: whether the image call raises or
\* answers without an image payload, the result is returned, with an empty
\* conceptArtUrl when the call raised.
C11_ConceptArtFailureDegrades ==
    (DesignFinished /\ Has(dtrace, "call:image")) =>
        /\ dpc = "returned"
        /\ Has(dtrace, "fail:image") => dresult.conceptArtUrl = ""

\* the pieces of all messages written to the console
Logged == UNION { { console[i][j] : j \in DOMAIN console[i] } : i \in DOMAIN console }

\* C12: every locator generateStressTestVideo returns is the done job's result URI
\* followed once by the credential suffix; no locator is returned without it, and
\* neither the credential nor the locator is written to the console.
C12_LocatorCarriesCredentialOnce ==
    /\ vpc = "returned" =>
          /\ operation.done
          /\ HasLocator(operation)
          /\ vresult = operation.videos[1] \o "&key=" \o API_KEY
    /\ vresult # None => vpc = "returned"
    /\ API_KEY \notin Logged
    /\ vresult \notin Logged

C12_Witness ==
    /\ vpc = "returned"
    /\ vresult = "https://video/2&key=SECRET"
    /\ Len(operation.videos) = 2

\* an invocation of generateVirtualFit with a simConfig has composed its text
FitComposed ==
    /\ iop = "generateVirtualFit"
    /\ ipc # "idle"
    /\ iargs.simConfig.present

\* C13: for every SimulationConfig passed to generateVirtualFit the composed text
\* holds exactly the physics clause of the config's physics value: wet the
\* damp/clinging clause, heavy the hangs-heavily clause, flow the dynamic-movement
\* clause, each without the other two, and static none of the three.
C13_PhysicsClauseOfValue ==
    FitComposed =>
        /\ Has(iprompt, WetClause) <=> iargs.simConfig.physics = "wet"
        /\ Has(iprompt, HeavyClause) <=> iargs.simConfig.physics = "heavy"
        /\ Has(iprompt, FlowClause) <=> iargs.simConfig.physics = "flow"
        /\ iargs.simConfig.physics \in PhysicsValues =>
              Count(iprompt, WetClause) + Count(iprompt, HeavyClause)
                 + Count(iprompt, FlowClause)
              = IF iargs.simConfig.physics = "static" THEN 0 ELSE 1

C13_Witness ==
    /\ FitComposed
    /\ ipc = "returned"
    /\ iargs.simConfig.physics = "wet"
    /\ Has(iprompt, "Fabric must appear damp, darker, and clinging to the skin.")
    /\ ~Has(iprompt, "Fabric should hang heavily with minimal folds.")

\* the safety lines a composed text can hold for the constraint strings of the model
SafetyLines ==
    { SafetyPrefix \o c \o SafetySuffix :
         c \in { x \in { cfg.actorConstraints : cfg \in SimConfigs } : x # Undefined } }

\* C14: with non-empty actorConstraints the text composed by generateVirtualFit holds
\* that exact string inside the line marked "Priority: High", once; with empty or
\* absent actorConstraints, or without a simConfig, it holds no safety line.
C14_ConstraintsVerbatimHighPriority ==
    (iop = "generateVirtualFit" /\ ipc # "idle") =>
        IF iargs.simConfig.present /\ iargs.simConfig.actorConstraints \notin {Undefined, ""}
        THEN /\ Count(iprompt, "- **ACTOR CONSTRAINTS / SAFETY:** "
                         \o iargs.simConfig.actorConstraints
                         \o ". (Priority: High - Ensure these constraints modify the fit visually).") = 1
             /\ \A i \in DOMAIN iprompt :
                   iprompt[i] \in SafetyLines =>
                      iprompt[i] = SafetyPrefix \o iargs.simConfig.actorConstraints
                                      \o SafetySuffix
        ELSE \A i \in DOMAIN iprompt : iprompt[i] \notin SafetyLines

C14_Witness ==
    /\ FitComposed
    /\ iargs.simConfig.actorConstraints = "no tight collars"
    /\ Has(iprompt, "- **ACTOR CONSTRAINTS / SAFETY:** no tight collars. (Priority: High - Ensure these constraints modify the fit visually).")

UnknownValue(cfg) ==
    /\ cfg.present
    /\ \/ cfg.physics \notin PhysicsValues
       \/ cfg.lighting \notin LightingValues
       \/ cfg.action \notin ActionValues

\* C16 (as stated): a SimulationConfig with a value outside the enumerated sets is
\* rejected by the composer: generateVirtualFit fails without issuing the
\* image-synthesis call and composes no text.
C16_UnknownValueRejected ==
    (iop = "generateVirtualFit" /\ UnknownValue(iargs.simConfig)) =>
        /\ ipc \notin {"await", "returned"}
        /\ iprompt = <<>>

\* the chat response of generateProfessionalDesign is a fenced JSON object
DesignFenced == chatResponse.kind = "text" /\ chatResponse.text.form = "fenced"
\* the response of analyzeFitCompatibility is a fenced JSON object
AnalysisFenced == aresponse.form = "fenced"

\* C18: a structured response whose JSON object is wrapped in code-fence markup is
\* rejected with a failure, or unwrapped to exactly the inner object; it is never
\* returned as a result and never yields a partially parsed object.  (Both
\* operations reject it.)
C18_FencedRejectedOrUnwrapped ==
    /\ DesignFenced =>
          \/ /\ dpc = "failed"
             /\ derror = "Analysis failed. Please try again."
             /\ designData = NoData
             /\ dresult = NoResult
          \/ /\ dpc \in {"image", "returned", "failed"}
             /\ designData = InjectSources(chatResponse.text.value, weatherInfo)
    /\ AnalysisFenced =>
          \/ /\ apc = "failed"
             /\ aresult = NoAnalysis
          \/ /\ apc = "returned"
             /\ aresult = aresponse.value

C18_Witness ==
    /\ DesignFenced /\ dpc = "failed" /\ Has(dtrace, "parse:fail")
    /\ AnalysisFenced /\ apc = "failed" /\ aerror = "SyntaxError"

\* C17 (as stated): when the search-grounded call succeeds with an empty response
\* text, getRealWeatherWithSearch returns the default: temperature 72, the default
\* sunny condition and no sources.
C17_EmptyTextGivesDefault ==
    (Has(dtrace, "resp:grounding") /\ groundingResponse.text \in {Undefined, ""}) =>
        /\ weatherInfo.temp = 72
        /\ weatherInfo.condition = "Sunny (Default)"
        /\ weatherInfo.sources = <<>>

\* the number of operations invoked by a step: generateProfessionalDesign issues
\* its first call, generateVirtualFit its image call, generateStressTestVideo its
\* job start, the FittingRoom's initial load effect its urlToFile
Invoked ==
    (IF dpc # "grounding" /\ dpc' = "grounding" THEN 1 ELSE 0)
    + (IF ipc # "await" /\ ipc' = "await" THEN 1 ELSE 0)
    + (IF vpc # "start" /\ vpc' = "start" THEN 1 ELSE 0)
    + (IF ~garmentLoading /\ garmentLoading' THEN 1 ELSE 0)

\* C19: no automatic retries.  Within one invocation the grounding query, the
\* conversational turn, the image synthesis and the job start are each issued at
\* most once, also after a failure; and an operation is invoked only by a step in
\* which the user submits a brief or clicks render, export or try-on, exactly one
\* invocation per such step, so that no handler invokes its operation again after
\* a failure.
C19_NoRetries ==
    /\ [](/\ Count(dtrace, "call:grounding") <= 1
          /\ Count(dtrace, "call:chat") <= 1
          /\ Count(dtrace, "call:image") <= 1
          /\ Len(startLog) <= 1)
    /\ [][Invoked = clicks' - clicks]_vars
    /\ [][/\ dpc = "failed" => dpc' \in {"failed", "idle"}
          /\ ipc = "failed" => ipc' \in {"failed", "idle"}
          /\ vpc = "failed" => vpc' \in {"failed", "idle"}]_vars

C19_Witness ==
    /\ error = "Design generation failed"
    /\ directorView = "brief"
    /\ dpc = "idle"
    /\ clicks = 2
    /\ modelFile # None /\ selectedGarment # None
    /\ generatedImage = None /\ ~isLoading /\ ipc = "idle"

JobState == IF operation.done THEN "DONE" ELSE "PENDING"

\* C21: the video job is PENDING or DONE; a poll reporting not-done keeps it PENDING
\* and leads to the next sleep, a poll reporting done moves it to DONE, where the
\* call returns when the job carries a locator and raises when it does not; once the
\* job is DONE nothing sleeps or polls and the job never changes again; a poll is
\* issued only from a sleep, a sleep leads to nothing but its poll, and there is one
\* sleep per poll; after the start call has created the job, only the response of a
\* poll changes it.
C21_JobLifeCycle ==
    /\ [](JobState \in {"PENDING", "DONE"})
    /\ [](vpc = "sleep" => JobState = "PENDING")
    /\ [](vpc = "returned" => JobState = "DONE" /\ HasLocator(operation))
    /\ []((vpc = "failed" /\ JobState = "DONE") =>
             ~HasLocator(operation) /\ vresult = None)
    /\ []((nSleeps < MaxPolls) =>
             nSleeps = nPolls + (IF vpc = "sleep" THEN 1 ELSE 0))
    /\ [][ /\ (vpc = "poll" /\ vpc' # "poll" /\ verror' # "TransportError") =>
                /\ operation' = remote
                /\ (~remote.done => vpc' = "sleep" /\ JobState' = "PENDING")
                /\ (remote.done =>
                      /\ JobState' = "DONE"
                      /\ vpc' = IF HasLocator(remote) THEN "returned" ELSE "failed")
           /\ (JobState = "DONE") =>
                /\ operation' = operation
                /\ vpc' \notin {"sleep", "poll"}
                /\ nSleeps' = nSleeps /\ nPolls' = nPolls
           /\ (vpc' = "poll" /\ vpc # "poll") => vpc = "sleep"
           /\ (vpc = "sleep") => vpc' \in {"sleep", "poll"}
           /\ (operation' # operation) =>
                \/ vpc = "poll"
                \/ vpc = "start" /\ startLog = <<>>
         ]_vars

\* a job that two polls kept PENDING and the third moved to DONE with a locator
C21_Witness ==
    /\ vpc = "returned"
    /\ Len(startLog) = 1 /\ ~startLog[1].done
    /\ Len(pollLog) = 3
    /\ ~pollLog[1].done /\ ~pollLog[2].done /\ pollLog[3].done
    /\ nSleeps = 3 /\ nPolls = 3
    /\ HasLocator(operation)

(***************************************************************************)
(* Which payload of an image response becomes the locator                  *)
(***************************************************************************)

\* the positions <<candidate, part>> of the inline payloads of a response
PayloadPositions(candidates) ==
    { <<c, p>> \in (1..MaxCandidates) \X (1..2) :
         /\ c \in DOMAIN candidates
         /\ p \in DOMAIN candidates[c]
         /\ candidates[c][p].inline }

\* the first payload position in candidate-then-part order
FirstPayload(candidates) ==
    CHOOSE x \in PayloadPositions(candidates) :
       \A y \in PayloadPositions(candidates) :
          x[1] < y[1] \/ (x[1] = y[1] /\ x[2] <= y[2])

\* C22: the locator an image operation returns is built from the first inline
\* payload of the response in candidate-then-part order; no later payload replaces it.
C22_FirstPayloadWins ==
    ipc = "returned" =>
       LET x == FirstPayload(iresponse)
       IN iresult = DataUrl(iresponse[x[1]][x[2]])

(***************************************************************************)
(* The directive clauses of a SimulationConfig                             *)
(***************************************************************************)

\* the positions of the three field lines and of the first line after the settings
PhysicsLine  == Pos(iprompt, "- **Fabric Physics:** Simulate '"
                                \o Str(iargs.simConfig.physics) \o "' weight.")
LightingLine == Pos(iprompt, "- **Lighting Synthesis:** Apply '"
                                \o Str(iargs.simConfig.lighting) \o "' lighting.")
PoseLine     == Pos(iprompt, "- **Pose Estimation:** Adapt the garment to the actor's '"
                                \o Str(iargs.simConfig.action) \o "' pose rigorously.")
RequirementsLine == Pos(iprompt, "Requirements:")

\* the value-keyed clauses between two positions of the composed text: its lines
\* other than the empty ones and the ACTOR CONSTRAINTS line
ClausesBetween(from, to) ==
    { i \in (from + 1)..(to - 1) :
         /\ iprompt[i] # ""
         /\ iprompt[i] # SafetyClause(iargs.simConfig) }

\* C23: for every SimulationConfig the composed text of generateVirtualFit has exactly
\* one value-keyed clause for each of physics, lighting and action whose value is not
\* the default (static, natural, idle), after that field's line, and none for a field
\* at its default.
C23_OneClausePerNonDefaultField ==
    ( /\ FitComposed
      /\ iargs.simConfig.physics \in PhysicsValues
      /\ iargs.simConfig.lighting \in LightingValues
      /\ iargs.simConfig.action \in ActionValues ) =>
        /\ 0 < PhysicsLine /\ PhysicsLine < LightingLine
        /\ LightingLine < PoseLine /\ PoseLine < RequirementsLine
        /\ Cardinality(ClausesBetween(PhysicsLine, LightingLine))
             = IF iargs.simConfig.physics = "static" THEN 0 ELSE 1
        /\ Cardinality(ClausesBetween(LightingLine, PoseLine))
             = IF iargs.simConfig.lighting = "natural" THEN 0 ELSE 1
        /\ Cardinality(ClausesBetween(PoseLine, RequirementsLine))
             = IF iargs.simConfig.action = "idle" THEN 0 ELSE 1

(***************************************************************************)
(* The environment block of generateVirtualFit                             *)
(***************************************************************************)

ContextHeader  == "[CONTEXT & ENVIRONMENT]"
SettingsHeader == "[PHYSICS & LIGHTING ENGINE SETTINGS]"

\* C24: in generateVirtualFit a non-empty context is emitted verbatim, once, as an
\* environment block that comes before the physics, lighting and action directives;
\* an absent or empty context, which is what FittingRoom passes when it has neither
\* weather nor constraints, gives no environment block.
C24_ContextBlockFirst ==
    /\ FitContext(Undefined, Undefined) \in Contexts
    /\ (iop = "generateVirtualFit" /\ ipc # "idle") =>
          IF iargs.context \notin {Undefined, ""}
          THEN /\ Count(iprompt, ContextHeader) = 1
               /\ Count(iprompt, iargs.context) = 1
               /\ Pos(iprompt, iargs.context) = Pos(iprompt, ContextHeader) + 1
               /\ Pos(iprompt, iargs.context) < RequirementsLine
               /\ iargs.simConfig.present =>
                     /\ Pos(iprompt, iargs.context) < Pos(iprompt, SettingsHeader)
                     /\ Pos(iprompt, iargs.context) < PhysicsLine
          ELSE /\ ~Has(iprompt, ContextHeader)
               /\ \A c \in Contexts : Truthy(c) => ~Has(iprompt, c)

\* a fit composed with the context of a FittingRoom that has weather and
\* constraints, and with a configuration
C24_Witness ==
    /\ iop = "generateVirtualFit"
    /\ ipc = "returned"
    /\ iargs.context = FitContext("Rainy, 50F", "Camera: avoid moire")
    /\ iargs.simConfig.present /\ iargs.simConfig.physics = "wet"
    /\ Has(iprompt, ContextHeader)

(***************************************************************************)
(* The StartScreen wizard                                                  *)
(***************************************************************************)

\* C25: in the StartScreen, whatever the field edits and the Next and Back clicks,
\* step stays in {1, 2, 3}; from step 2 on the step-1 predicate holds and at step 3
\* the step-2 predicate holds; and onComplete is invoked only at step 3, with the
\* brief under edit, for which the three validity predicates hold: projectType longer
\* than 2 and sceneContext longer than 5 characters, characterProfile and
\* psychologicalState longer than 2, filmingLocation longer than 2.
C25_WizardGatesSubmission ==
    /\ [](step \in {1, 2, 3})
    /\ [](step >= 2 => Len(wbrief.projectType) > 2 /\ Len(wbrief.sceneContext) > 5)
    /\ [](step = 3 => Len(wbrief.characterProfile) > 2 /\ Len(wbrief.psychologicalState) > 2)
    /\ [][(dpc = "idle" /\ dpc' # "idle") =>
             /\ step = 3
             /\ Len(wbrief.projectType) > 2 /\ Len(wbrief.sceneContext) > 5
             /\ Len(wbrief.characterProfile) > 2 /\ Len(wbrief.psychologicalState) > 2
             /\ Len(wbrief.filmingLocation) > 2
             /\ brief' = [filmingLocation |-> wbrief.filmingLocation,
                          characterProfile |-> wbrief.characterProfile]
             /\ directorView' = "processing"
          ]_vars

\* the second brief of a run has been submitted, after the first one failed
C25_Witness ==
    /\ dpc = "grounding"
    /\ clicks = 2
    /\ error = None
    /\ directorView = "processing"
    /\ brief = [filmingLocation |-> "London", characterProfile |-> "a tired detective"]

(***************************************************************************)
(* App and FittingRoom state                                               *)
(***************************************************************************)

\* C26: in FittingRoom, in every interleaving of user actions and completions, there
\* is a render only while there is a model, and after Start Over generatedImage and
\* videoUrl stay null until a new render or video is requested: the completion of a
\* request that was in flight when Start Over was clicked sets neither.
C26_StartOverDiscardsInFlight ==
    /\ [](generatedImage # None => modelFile # None)
    /\ [][startedOver => /\ (generatedImage' = None \/ generatedImage' = generatedImage)
                         /\ (videoUrl' = None \/ videoUrl' = videoUrl)]_vars

\* C27: a render whose generateVirtualFit call fails leaves generatedImage and
\* previousImage as they were before handleFitProcess was invoked, and isLoading is
\* false again (Start Over not having been clicked in between).
C27_FailedRenderKeepsImages ==
    [][(ipc = "failed" /\ ipc' = "idle" /\ iop = "generateVirtualFit"
           /\ mode' = "fitting" /\ ~startedOver) =>
          /\ generatedImage' = beforeFit.generatedImage
          /\ previousImage' = beforeFit.previousImage
          /\ ~isLoading'
      ]_vars

\* C28: in App, whatever the brief submissions, successes, failures, New Brief clicks
\* and navigation between the hub and the modes: the lookbook view has a result, an
\* error is shown only in the brief view, and the processing view holds exactly while
\* a generateProfessionalDesign call is in flight; a call is started only from the
\* brief view, so that at most one is in flight.
C28_DirectorViewTracksCall ==
    /\ [](directorView = "lookbook" => directorResult # NoResult)
    /\ [](error # None => directorView = "brief")
    /\ [](directorView = "processing" <=> dpc # "idle")
    /\ [][(dpc = "idle" /\ dpc' # "idle") =>
             /\ mode = "director" /\ directorView = "brief"
             /\ directorView' = "processing"]_vars

\* the user is back at the hub while the design call of the processing view is in flight
C28_Witness ==
    /\ mode = "home"
    /\ directorView = "processing"
    /\ dpc = "chat"
    /\ clicks = 2
    /\ directorResult = NoResult

====
